---------------------------- MODULE Spec2Model ----------------------------
(***************************************************************************)
(* Model of server.py: the GitHub App installation / OAuth linking flow.   *)
(*                                                                         *)
(* Strings are sequences of character codes.  A token character is one of  *)
(* the 64 symbols of the url-safe base64 alphabet (codes 0..63, the code   *)
(* being the symbol's 6-bit value) or one of the codes named below.  An    *)
(* optional value (Python's None) is the empty tuple, a present value v is *)
(* the 1-tuple <<v>>.                                                      *)
(***************************************************************************)
EXTENDS Integers, Sequences, FiniteSets, TLC

VARIABLES
    now,              \* int(time.time())
    strictExp,        \* the installed PyJWT rejects a token at now = exp
    INSTALLATIONS_DB, \* the dict, as a set of <<account_id, installation_id>>
    issued,           \* state tokens handed out by index_page
    call,             \* per request slot: the github_callback run in it
    consumed,         \* OAuth codes the authority has already exchanged
    commits,          \* how many stores each state token has led to
    lastStore,        \* the store executed last: <<account_id, installation_id>>
    verified,         \* <<account_id, installation_id>> the authority vouched for
    tok,              \* codec: the token under test
    orig,             \* codec: the token it was derived from
    res,              \* codec: what decode_state_token last did with tok
    answer,           \* verifier: the authority's reply to GET /user/installations
    claimed,          \* verifier: the installation_id asked about
    owned             \* verifier: what user_owns_installation last did with them

vars == <<now, strictExp, INSTALLATIONS_DB, issued, call, consumed, commits, lastStore, verified,
          tok, orig, res, answer, claimed, owned>>

----------------------------------------------------------------------------
(* Bounds of the model. *)

\* Account ids range over 1..NumAccounts.
NumAccounts == 2
\* The clock runs up to TTL + 1 + MaxLate.
MaxLate == 1
\* OAuth codes the authority hands out: 1..NumCodes.
NumCodes == 2
\* Installation ids of the authority: 1..NumInst.
NumInst == 2
\* Longest installations listing the authority answers with.
MaxListing == 2

----------------------------------------------------------------------------
(* Values. *)

None == <<>>
Some(v) == <<v>>
\* Python truthiness of an optional string: None and "" are falsy.
Falsy(v) == v = None \/ v[1] = <<>>

Dot == 64      \* "."
Pad == 65      \* "="
Plus == 66     \* "+", which urlsafe_b64decode reads as "-" (62)
Slash == 67    \* "/", which urlsafe_b64decode reads as "_" (63)
Other == 68    \* any byte outside the alphabets
Chars == 0..68

JWT_SECRET == 1
JWT_ALGORITHM == 1
TTL == 300
ACCOUNT_ID == 1

Accounts == 1..NumAccounts
Keys == {JWT_SECRET, JWT_SECRET + 1}
Times == {1} \cup (TTL .. (TTL + 1 + MaxLate))

----------------------------------------------------------------------------
(* base64url, as PyJWT's base64url_encode / base64url_decode compute it.   *)

RECURSIVE B64Encode(_)
B64Encode(b) ==
    IF Len(b) = 0 THEN <<>>
    ELSE IF Len(b) = 1 THEN <<b[1] \div 4, (b[1] % 4) * 16>>
    ELSE IF Len(b) = 2
         THEN <<b[1] \div 4, (b[1] % 4) * 16 + b[2] \div 16, (b[2] % 16) * 4>>
    ELSE <<b[1] \div 4, (b[1] % 4) * 16 + b[2] \div 16,
           (b[2] % 16) * 4 + b[3] \div 64, b[3] % 64>>
         \o B64Encode(SubSeq(b, 4, Len(b)))

\* table_a2b_base64 after the "-_" -> "+/" translation: 64 and above is
\* "not in the alphabet".
A2BValue(c) ==
    IF c < 64 THEN c ELSE IF c = Plus THEN 62 ELSE IF c = Slash THEN 63 ELSE 64

\* binascii.a2b_base64 in its non-strict mode, over s from position i:
\* quad is the position in the current group of four, pads the padding
\* seen since the last data character, left the bits carried over.
RECURSIVE A2B(_, _, _, _, _, _)
A2B(s, i, quad, pads, left, out) ==
    IF i > Len(s) THEN [ok |-> quad = 0, bytes |-> out]
    ELSE IF s[i] = Pad
         THEN IF quad >= 2 /\ quad + pads + 1 >= 4
              THEN [ok |-> TRUE, bytes |-> out]
              ELSE A2B(s, i + 1, quad, IF quad >= 2 THEN pads + 1 ELSE pads,
                       left, out)
    ELSE IF A2BValue(s[i]) >= 64 THEN A2B(s, i + 1, quad, pads, left, out)
    ELSE LET v == A2BValue(s[i]) IN
         CASE quad = 0 -> A2B(s, i + 1, 1, 0, v, out)
           [] quad = 1 -> A2B(s, i + 1, 2, 0, v % 16,
                              Append(out, left * 4 + v \div 16))
           [] quad = 2 -> A2B(s, i + 1, 3, 0, v % 4,
                              Append(out, left * 16 + v \div 4))
           [] OTHER    -> A2B(s, i + 1, 0, 0, 0, Append(out, left * 64 + v))

Padding(n) == [k \in 1..((4 - (n % 4)) % 4) |-> Pad]

base64url_decode(seg) == A2B(seg \o Padding(Len(seg)), 1, 0, 0, 0, <<>>)

----------------------------------------------------------------------------
(* JSON and HMAC, reduced to what the codec uses of them.                  *)

\* The header {"alg": alg, "typ": "JWT"} serialises to one byte.
HeaderDumps(alg) == <<alg>>
HeaderLoads(b) ==
    IF Len(b) = 1 /\ b[1] \in 1..3
    THEN [ok |-> TRUE, alg |-> b[1]] ELSE [ok |-> FALSE, alg |-> 0]

\* A payload is [account_id, exp], both optional.  It serialises to four
\* bytes: which claims are present, the account id, the expiry (16 bits).
PayloadDumps(p) ==
    LET a == IF p.account_id = None THEN 0 ELSE p.account_id[1]
        e == IF p.exp = None THEN 0 ELSE p.exp[1]
    IN  <<(IF p.account_id = None THEN 0 ELSE 1) + (IF p.exp = None THEN 0 ELSE 2),
          a, e \div 256, e % 256>>

PayloadLoads(b) ==
    IF /\ Len(b) = 4
       /\ b[1] \in 0..3
       /\ (b[1] % 2 = 0 => b[2] = 0)
       /\ (b[1] \div 2 = 0 => b[3] = 0 /\ b[4] = 0)
    THEN [ok |-> TRUE,
          value |-> [account_id |-> IF b[1] % 2 = 1 THEN Some(b[2]) ELSE None,
                     exp |-> IF b[1] \div 2 = 1 THEN Some(b[3] * 256 + b[4])
                             ELSE None]]
    ELSE [ok |-> FALSE, value |-> [account_id |-> None, exp |-> None]]

\* HMAC-SHA256 as a keyed 16-bit tag.  Two messages of one length that
\* differ in one character have different tags (65521 is prime and 69
\* exceeds every character code), so within the model a tag is never met
\* by accident.  16 bits = 2 bytes encode to 3 characters of which the last
\* carries 2 unused bits, as the 43rd character of a 32-byte tag does.
RECURSIVE Mix(_, _, _)
Mix(h, msg, i) ==
    IF i > Len(msg) THEN h ELSE Mix((h * 69 + msg[i] + 1) % 65521, msg, i + 1)

HmacSha256(key, msg) ==
    LET h == Mix(key * 1009, msg, 1) IN <<h \div 256, h % 256>>

----------------------------------------------------------------------------
(* jwt.encode / jwt.decode (PyJWT).                                        *)

jwt_encode(payload, key, alg) ==
    LET signing_input == B64Encode(HeaderDumps(alg)) \o <<Dot>>
                         \o B64Encode(PayloadDumps(payload))
    IN  signing_input \o <<Dot>> \o B64Encode(HmacSha256(key, signing_input))

Dots(s) == {i \in 1..Len(s) : s[i] = Dot}
Max(S) == CHOOSE x \in S : \A y \in S : y <= x
Min(S) == CHOOSE x \in S : \A y \in S : x <= y

Raise(e) == [ok |-> FALSE, exc |-> e, payload |-> [account_id |-> None, exp |-> None]]

\* An expiry check with a second of grace.
ExpiredLeeway(exp, t, strict) == IF strict THEN exp + 1 <= t ELSE exp + 1 < t

\* exp <= now in the PyJWT releases that reject a token in its last second,
\* exp < now in the earlier ones.
Expired(exp, t, strict) == IF strict THEN exp <= t ELSE exp < t

\* A verification that never looks at the signature.
HmacVerifyAny(msg, key, sig) == TRUE

\* HMACAlgorithm.verify: compare_digest(sig, sign(msg, key)).
HmacVerify(msg, key, sig) == sig = HmacSha256(key, msg)

jwt_decode(token, key, alg, t, strict) ==
    IF Cardinality(Dots(token)) < 2 THEN Raise("DecodeError")
    ELSE
    LET last == Max(Dots(token))
        signing_input == SubSeq(token, 1, last - 1)
        crypto_segment == SubSeq(token, last + 1, Len(token))
        first == Min(Dots(signing_input))
        header_segment == SubSeq(signing_input, 1, first - 1)
        payload_segment == SubSeq(signing_input, first + 1, Len(signing_input))
        hd == base64url_decode(header_segment)
        header == HeaderLoads(hd.bytes)
        pd == base64url_decode(payload_segment)
        sd == base64url_decode(crypto_segment)
        payload == PayloadLoads(pd.bytes)
    IN  IF ~hd.ok \/ ~header.ok \/ ~pd.ok \/ ~sd.ok THEN Raise("DecodeError")
        ELSE IF header.alg # alg THEN Raise("InvalidAlgorithmError")
        ELSE IF ~HmacVerify(signing_input, key, sd.bytes)
             THEN Raise("InvalidSignatureError")
        ELSE IF ~payload.ok THEN Raise("DecodeError")
        ELSE IF payload.value.exp # None /\ Expired(payload.value.exp[1], t, strict)
             THEN Raise("ExpiredSignatureError")
        ELSE [ok |-> TRUE, exc |-> "", payload |-> payload.value]

----------------------------------------------------------------------------
(* The state token codec of server.py.                                     *)

\* A token that always names ACCOUNT_ID, whatever account asked for it.
generate_state_token_fixed(account_id, t) ==
    jwt_encode([account_id |-> Some(ACCOUNT_ID), exp |-> Some(t + TTL)],
               JWT_SECRET, JWT_ALGORITHM)

\* jwt.encode of {"account_id": account_id, "exp": int(time.time()) + 300}.
generate_state_token(account_id, t) ==
    jwt_encode([account_id |-> Some(account_id), exp |-> Some(t + TTL)],
               JWT_SECRET, JWT_ALGORITHM)

Return(v) == [kind |-> "return", value |-> v, status |-> 0, detail |-> ""]
HTTPException(status, detail) ==
    [kind |-> "HTTPException", value |-> 0, status |-> status, detail |-> detail]
\* An exception no handler of the application catches.
Uncaught(e) == [kind |-> e, value |-> 0, status |-> 500, detail |-> "Internal Server Error"]

\* A decode that answers an expired token with 401.
decode_state_token_401(token, t, strict) ==
    LET d == jwt_decode(token, JWT_SECRET, JWT_ALGORITHM, t, strict) IN
    IF d.ok
    THEN IF d.payload.account_id = None THEN Uncaught("KeyError")
         ELSE Return(d.payload.account_id[1])
    ELSE IF d.exc = "ExpiredSignatureError"
         THEN HTTPException(401, "State token has expired.")
         ELSE HTTPException(400, "Invalid state token.")

\* jwt.decode, payload["account_id"], and the two except clauses.
decode_state_token(token, t, strict) ==
    LET d == jwt_decode(token, JWT_SECRET, JWT_ALGORITHM, t, strict) IN
    IF d.ok
    THEN IF d.payload.account_id = None THEN Uncaught("KeyError")
         ELSE Return(d.payload.account_id[1])
    ELSE IF d.exc = "ExpiredSignatureError"
         THEN HTTPException(400, "State token has expired.")
         ELSE HTTPException(400, "Invalid state token.")


----------------------------------------------------------------------------
(* The directory: INSTALLATIONS_DB, a dict.                                *)

\* d[k] = v that leaves an existing entry alone (dict.setdefault).
DictSetDefault(d, k, v) ==
    IF \E e \in d : e[1] = k THEN d ELSE d \cup {<<k, v>>}

\* d = {k: v}: an assignment that rebinds the whole dict.
DictReplace(d, k, v) == {<<k, v>>}

\* d[k] = v
DictSet(d, k, v) == {e \in d : e[1] # k} \cup {<<k, v>>}

\* d.get(k)
DictGet(d, k) ==
    IF \E e \in d : e[1] = k THEN Some((CHOOSE e \in d : e[1] = k)[2]) ELSE None

\* str(n) of a non-negative int, as its decimal digits.
RECURSIVE Str(_)
Str(n) == IF n < 10 THEN <<n>> ELSE Str(n \div 10) \o <<n % 10>>

----------------------------------------------------------------------------
(* github_callback and the two calls it awaits.                            *)

Passed == [kind |-> "passed", value |-> 0, status |-> 0, detail |-> ""]
NoRes == [kind |-> "none", value |-> 0, status |-> 0, detail |-> ""]
RedirectResponse(url) ==
    [kind |-> "RedirectResponse", value |-> 0, status |-> 307, detail |-> url]

\* A validation that forgets the code.
ValidateNoCode(code, installation_id, state_token) ==
    IF Falsy(installation_id) THEN HTTPException(400, "Missing installation_id.")
    ELSE IF Falsy(state_token) THEN HTTPException(400, "Missing state token.")
    ELSE Passed

\* The three "if not ..." checks on the query parameters.
Validate(code, installation_id, state_token) ==
    IF Falsy(code) THEN HTTPException(400, "Missing OAuth code.")
    ELSE IF Falsy(installation_id) THEN HTTPException(400, "Missing installation_id.")
    ELSE IF Falsy(state_token) THEN HTTPException(400, "Missing state token.")
    ELSE Passed

\* What httpx hands back for a request: a response (status, and a body
\* that is JSON or not), or an exception (a timeout, a connection error).
\* exc is "" when the call returns.
PostReply(exc, status, json, access_token) ==
    [exc |-> exc, status |-> status, json |-> json, access_token |-> access_token]
GetReply(exc, status, json, installations) ==
    [exc |-> exc, status |-> status, json |-> json, installations |-> installations]

\* exchange_code_for_user_token, given the reply to its POST: the access
\* token, None, or the exception that leaves it.
exchange_code_for_user_token(reply) ==
    IF reply.exc # "" THEN [exc |-> reply.exc, value |-> None]
    ELSE IF ~reply.json THEN [exc |-> "JSONDecodeError", value |-> None]
    ELSE IF Falsy(reply.access_token) THEN [exc |-> "", value |-> None]
    ELSE [exc |-> "", value |-> reply.access_token]

\* for inst in installations: if str(inst["id"]) == str(installation_id)
RECURSIVE Listed(_, _, _)
Listed(installations, i, installation_id) ==
    IF i > Len(installations) THEN FALSE
    ELSE IF Str(installations[i]) = installation_id THEN TRUE
    ELSE Listed(installations, i + 1, installation_id)

\* An ownership check that takes any answer of the authority for a yes.
user_owns_any(reply, installation_id) ==
    IF reply.exc # "" THEN [exc |-> reply.exc, value |-> FALSE]
    ELSE [exc |-> "", value |-> TRUE]

\* An ownership check that reads the listing of any response, whatever
\* its status.
user_owns_installation_nostatus(reply, installation_id) ==
    IF reply.exc # "" THEN [exc |-> reply.exc, value |-> FALSE]
    ELSE IF ~reply.json THEN [exc |-> "JSONDecodeError", value |-> FALSE]
    ELSE [exc |-> "", value |-> Listed(reply.installations, 1, installation_id)]

\* What the verifier has not yet been asked.
NoOwn == [exc |-> "none", value |-> FALSE]

\* user_owns_installation, given the reply to its GET.
user_owns_installation(reply, installation_id) ==
    IF reply.exc # "" THEN [exc |-> reply.exc, value |-> FALSE]
    ELSE IF reply.status # 200 THEN [exc |-> "", value |-> FALSE]
    ELSE IF ~reply.json THEN [exc |-> "JSONDecodeError", value |-> FALSE]
    ELSE [exc |-> "", value |-> Listed(reply.installations, 1, installation_id)]

\* A tail that stores the mapping before it looks at the check.
LinkEager(db, account_id, installation_id, owns) ==
    IF ~owns
    THEN [db |-> DictSet(db, account_id, installation_id), stored |-> TRUE,
          response |-> HTTPException(403, "Installation is not associated with this user.")]
    ELSE [db |-> DictSet(db, account_id, installation_id), stored |-> TRUE,
          response |-> RedirectResponse("/setup")]

\* A tail that redirects without having stored the mapping.
LinkForget(db, account_id, installation_id, owns) ==
    IF ~owns
    THEN [db |-> db, stored |-> FALSE,
          response |-> HTTPException(403, "Installation is not associated with this user.")]
    ELSE [db |-> db, stored |-> FALSE, response |-> RedirectResponse("/setup")]

\* The tail of github_callback once the ownership check has returned: 403,
\* or the store into INSTALLATIONS_DB and the redirect.
Link(db, account_id, installation_id, owns) ==
    IF ~owns
    THEN [db |-> db, stored |-> FALSE,
          response |-> HTTPException(403, "Installation is not associated with this user.")]
    ELSE [db |-> DictSet(db, account_id, installation_id), stored |-> TRUE,
          response |-> RedirectResponse("/setup")]

----------------------------------------------------------------------------
(* The requests and the authority's answers the model draws from.          *)

\* The request slots: two github_callback runs, which may overlap.
Procs == {1, 2}
InstIds == 1..NumInst
MainTimes == {1, TTL + 1 + MaxLate}

Codes == {None, Some(<<>>)} \cup {Some(<<c>>) : c \in 1..NumCodes}
InstParams == {None, Some(<<>>)} \cup {Some(Str(i)) : i \in InstIds}

\* What a client can put in "state" without the secret: a token it was
\* given, such a token with one character changed (in the payload, or the
\* last character of the signature), a token signed with a key of its
\* own, or something that is no token.
Bump(t, i) == [t EXCEPT ![i] = (t[i] + 1) % 64]
Tampered(t) == {Bump(t, 5), Bump(t, Len(t))}
Forged(t) ==
    jwt_encode([account_id |-> Some(NumAccounts), exp |-> Some(t + TTL)],
               JWT_SECRET + 1, JWT_ALGORITHM)
Presentable ==
    issued \cup UNION {Tampered(t) : t \in issued} \cup {Forged(now), <<Other>>}
StateParams == {None, Some(<<>>)} \cup {Some(t) : t \in Presentable}

\* The listings the authority answers with: up to MaxListing installations,
\* no id twice.
Listings ==
    {l \in UNION {[1..n -> InstIds] : n \in 0..MaxListing} :
        \A i, j \in 1..Len(l) : l[i] = l[j] => i = j}

PostReplies ==
    {PostReply("TimeoutException", 0, FALSE, None),
     PostReply("", 500, FALSE, None),
     PostReply("", 500, TRUE, None),
     PostReply("", 200, TRUE, None),
     PostReply("", 200, TRUE, Some(<<>>)),
     PostReply("", 200, TRUE, Some(<<1>>))}

GetReplies ==
    {GetReply("TimeoutException", 0, FALSE, <<>>),
     GetReply("", 500, TRUE, <<>>),
     GetReply("", 200, FALSE, <<>>)}
    \cup {GetReply("", 200, TRUE, l) : l \in Listings}

\* The authority's own answer to "is this id in the user's listing".
Vouched(reply, installation_id) ==
    /\ reply.exc = "" /\ reply.status = 200 /\ reply.json
    /\ \E i \in 1..Len(reply.installations) :
          Str(reply.installations[i]) = installation_id

----------------------------------------------------------------------------
(* The state of one github_callback run.  pc is where it stands: "idle"    *)
(* (not started), "exchange" (awaiting the POST of the code exchange),     *)
(* "ownership" (awaiting the GET of the installations listing), "done".    *)
(* The other fields record what happened to the run.  missing: a query     *)
(* parameter was absent or empty.  posts, gets: the POSTs and GETs it      *)
(* sent.  raced: another run was in flight when it started.  upstatus: the *)
(* HTTP status of the authority's last answer to it (0: none).  cause: why *)
(* it ended,                                                               *)
(*   "missing"        a parameter absent or empty                          *)
(*   "expired"        jwt.decode raised ExpiredSignatureError              *)
(*   "invalid"        decode_state_token failed otherwise                  *)
(*   "transport"      an outbound call raised (timeout, connection error)  *)
(*   "garbage"        an answer whose body is not JSON                     *)
(*   "refused"        a code exchange answered without an access token     *)
(*   "listing_status" a listing answered with a status other than 200      *)
(*   "not_owned"      a listing (200) without the installation id          *)
(*   "none"           a listing (200) with the installation id.            *)
(* A finished run keeps no locals.                                         *)

Idle ==
    [pc |-> "idle", code |-> None, installation_id |-> None, state_token |-> None,
     account_id |-> 0, user_token |-> None, response |-> NoRes,
     missing |-> FALSE, posts |-> 0, gets |-> 0, raced |-> FALSE, upstatus |-> 0,
     cause |-> "none"]

Ended(c, response, cause, upstatus) ==
    [Idle EXCEPT !.pc = "done", !.response = response, !.cause = cause,
                 !.upstatus = upstatus, !.raced = c.raced,
                 !.missing = c.missing, !.posts = c.posts, !.gets = c.gets]

Init ==
    /\ now = 1
    /\ strictExp \in BOOLEAN
    /\ INSTALLATIONS_DB = {}
    /\ issued = {}
    /\ call = [p \in Procs |-> Idle]
    /\ consumed = {}
    /\ commits = <<>>
    /\ lastStore = None
    /\ verified = {}
    /\ tok = <<>>
    /\ orig = <<>>
    /\ res = NoRes
    /\ answer = GetReply("", 200, TRUE, <<>>)
    /\ claimed = <<>>
    /\ owned = NoOwn

codecVars == <<tok, orig, res>>
verifierVars == <<answer, claimed, owned>>

\* One more store counted for token t.
Counted(f, t) ==
    [x \in DOMAIN f \cup {t} |-> IF x = t THEN (IF t \in DOMAIN f THEN f[t] + 1 ELSE 1)
                                 ELSE f[x]]

\* github_callback from its entry to its first suspension: the parameter
\* checks, decode_state_token, and the POST of the code exchange going out.
Receive(p, code, installation_id, state_token) ==
    /\ call[p].pc = "idle"
    /\ LET c == [Idle EXCEPT !.missing = Falsy(code) \/ Falsy(installation_id)
                                          \/ Falsy(state_token),
                             !.raced = \E q \in Procs \ {p} :
                                          call[q].pc \in {"exchange", "ownership"}]
           v == Validate(code, installation_id, state_token)
       IN  IF v.kind # "passed"
           THEN call' = [call EXCEPT ![p] = Ended(c, v, "missing", 0)]
           ELSE LET d == decode_state_token(state_token[1], now, strictExp) IN
                IF d.kind # "return"
                THEN call' = [call EXCEPT ![p] =
                        Ended(c, d,
                              IF jwt_decode(state_token[1], JWT_SECRET, JWT_ALGORITHM,
                                            now, strictExp).exc = "ExpiredSignatureError"
                              THEN "expired" ELSE "invalid", 0)]
                ELSE call' = [call EXCEPT ![p] =
                        [c EXCEPT !.pc = "exchange", !.code = code,
                                  !.installation_id = installation_id,
                                  !.state_token = state_token,
                                  !.account_id = d.value, !.posts = 1]]
    /\ UNCHANGED <<now, strictExp, INSTALLATIONS_DB, issued, consumed, commits, lastStore, verified,
                   codecVars, verifierVars>>

\* The POST returns (or raises): exchange_code_for_user_token finishes,
\* github_callback checks the token and the GET of the listing goes out.
\* The authority grants a token for a code once.
ExchangeReply(p, reply) ==
    /\ call[p].pc = "exchange"
    /\ LET c == call[p]
           granted == reply.exc = "" /\ reply.json /\ ~Falsy(reply.access_token)
           u == exchange_code_for_user_token(reply)
           cause == IF reply.exc # "" THEN "transport"
                    ELSE IF ~reply.json THEN "garbage"
                    ELSE "refused"
       IN  /\ granted => c.code \notin consumed /\ c.code # None
           /\ consumed' = IF granted THEN consumed \cup {c.code} ELSE consumed
           /\ IF u.exc # ""
              THEN call' = [call EXCEPT ![p] = Ended(c, Uncaught(u.exc), cause, reply.status)]
              ELSE IF Falsy(u.value)
              THEN call' = [call EXCEPT ![p] =
                      Ended(c, HTTPException(400, "Failed to exchange code for user token."),
                            cause, reply.status)]
              ELSE call' = [call EXCEPT ![p] =
                      [c EXCEPT !.pc = "ownership", !.code = None,
                                !.user_token = u.value, !.gets = 1]]
    /\ UNCHANGED <<now, strictExp, INSTALLATIONS_DB, issued, commits, lastStore, verified, codecVars, verifierVars>>

\* The GET returns (or raises): user_owns_installation finishes and
\* github_callback runs to its end.
OwnershipReply(p, reply) ==
    /\ call[p].pc = "ownership"
    /\ LET c == call[p]
           id == c.installation_id[1]
           o == user_owns_installation(reply, id)
           l == Link(INSTALLATIONS_DB, c.account_id, id, o.value)
           cause == IF reply.exc # "" THEN "transport"
                    ELSE IF reply.status # 200 THEN "listing_status"
                    ELSE IF ~reply.json THEN "garbage"
                    ELSE IF ~Vouched(reply, id) THEN "not_owned"
                    ELSE "none"
       IN  /\ verified' = IF Vouched(reply, id)
                          THEN verified \cup {<<c.account_id, id>>} ELSE verified
           /\ IF o.exc # ""
              THEN /\ call' = [call EXCEPT ![p] = Ended(c, Uncaught(o.exc), cause, reply.status)]
                   /\ UNCHANGED <<INSTALLATIONS_DB, commits, lastStore>>
              ELSE /\ INSTALLATIONS_DB' = l.db
                   /\ commits' = IF l.stored THEN Counted(commits, c.state_token[1])
                                 ELSE commits
                   /\ lastStore' = IF l.stored THEN Some(<<c.account_id, id>>) ELSE lastStore
                   /\ call' = [call EXCEPT ![p] = Ended(c, l.response, cause, reply.status)]
    /\ UNCHANGED <<now, strictExp, issued, consumed, codecVars, verifierVars>>

\* GET /: a state token for ACCOUNT_ID while it has no installation, the
\* repository list of its installation otherwise.
index_page ==
    /\ LET account_id == ACCOUNT_ID
           installation_id == DictGet(INSTALLATIONS_DB, account_id)
       IN  issued' = IF Falsy(installation_id)
                     THEN issued \cup {generate_state_token(account_id, now)}
                     ELSE issued
    /\ UNCHANGED <<now, strictExp, INSTALLATIONS_DB, call, consumed, commits, lastStore, verified,
                   codecVars, verifierVars>>

\* GET /setup, GET /installations, GET /github/list-files: pages.
setup_page == UNCHANGED vars
list_installations == UNCHANGED vars
list_files_in_repo == UNCHANGED vars

\* time.time() moves on.
Tick ==
    /\ \E t \in MainTimes : t > now /\ now' = t
    /\ UNCHANGED <<strictExp, INSTALLATIONS_DB, issued, call, consumed, commits, lastStore, verified,
                   codecVars, verifierVars>>

Next ==
    \/ \E p \in Procs, code \in Codes, installation_id \in InstParams,
          state_token \in StateParams : Receive(p, code, installation_id, state_token)
    \/ \E p \in Procs, reply \in PostReplies : ExchangeReply(p, reply)
    \/ \E p \in Procs, reply \in GetReplies : OwnershipReply(p, reply)
    \/ index_page
    \/ setup_page
    \/ list_installations
    \/ list_files_in_repo
    \/ Tick

Spec == Init /\ [][Next]_vars

----------------------------------------------------------------------------
(* The codec on its own: a token is issued at time 1, or signed by hand,   *)
(* then altered in one character, and decoded while the clock runs.        *)

Payloads == [account_id : {None} \cup {Some(a) : a \in Accounts},
             exp : {None} \cup {Some(t + TTL) : t \in Times}]

CodecInit ==
    /\ now = 1
    /\ strictExp \in BOOLEAN
    /\ INSTALLATIONS_DB = {}
    /\ issued = {}
    /\ call = [p \in Procs |-> Idle]
    /\ consumed = {}
    /\ commits = <<>>
    /\ lastStore = None
    /\ verified = {}
    /\ tok = <<>>
    /\ orig = <<>>
    /\ res = NoRes
    /\ answer = GetReply("", 200, TRUE, <<>>)
    /\ claimed = <<>>
    /\ owned = NoOwn

\* generate_state_token(a) at the current time.
CodecIssue(a) ==
    /\ tok = <<>>
    /\ tok' = generate_state_token(a, now)
    /\ orig' = tok'
    /\ res' = NoRes
    /\ UNCHANGED <<now, strictExp, INSTALLATIONS_DB, issued, call, consumed, commits, lastStore, verified,
                   verifierVars>>

\* jwt.encode of an arbitrary payload under an arbitrary key.
CodecSign(p, k) ==
    /\ tok = <<>>
    /\ tok' = jwt_encode(p, k, JWT_ALGORITHM)
    /\ orig' = <<>>
    /\ res' = NoRes
    /\ UNCHANGED <<now, strictExp, INSTALLATIONS_DB, issued, call, consumed, commits, lastStore, verified,
                   verifierVars>>

\* One character of an issued token is replaced by another.
CodecAlter(i, c) ==
    /\ orig # <<>> /\ tok = orig
    /\ i \in 1..Len(orig) /\ c # orig[i]
    /\ tok' = [orig EXCEPT ![i] = c]
    /\ res' = NoRes
    /\ UNCHANGED <<now, strictExp, INSTALLATIONS_DB, issued, orig, call, consumed, commits, lastStore, verified,
                   verifierVars>>

\* One character of a token is dropped (a truncated or re-joined token).
CodecDrop(i) ==
    /\ orig # <<>> /\ tok = orig
    /\ i \in 1..Len(orig)
    /\ tok' = SubSeq(orig, 1, i - 1) \o SubSeq(orig, i + 1, Len(orig))
    /\ res' = NoRes
    /\ UNCHANGED <<now, strictExp, INSTALLATIONS_DB, issued, orig, call, consumed, commits, lastStore, verified,
                   verifierVars>>

CodecTick ==
    /\ tok # <<>>
    /\ \E t \in Times : t > now /\ now' = t
    /\ res' = NoRes
    /\ UNCHANGED <<strictExp, INSTALLATIONS_DB, issued, tok, orig, call, consumed, commits, lastStore, verified,
                   verifierVars>>

CodecDecode ==
    /\ tok # <<>> /\ res = NoRes
    /\ res' = decode_state_token(tok, now, strictExp)
    /\ UNCHANGED <<now, strictExp, INSTALLATIONS_DB, issued, tok, orig, call, consumed, commits, lastStore, verified,
                   verifierVars>>

CodecNext ==
    \/ \E a \in Accounts : CodecIssue(a)
    \/ \E p \in Payloads, k \in Keys : CodecSign(p, k)
    \/ \E i \in 1..16, c \in Chars : CodecAlter(i, c)
    \/ \E i \in 1..16 : CodecDrop(i)
    \/ CodecTick
    \/ CodecDecode

CodecSpec == CodecInit /\ [][CodecNext]_vars

----------------------------------------------------------------------------
(* The ownership verifier on its own: the authority's answer is put        *)
(* together (status, body, listing), an installation_id is claimed, and    *)
(* user_owns_installation is applied to them.                              *)

flowVars == <<now, strictExp, INSTALLATIONS_DB, issued, call, consumed, commits, lastStore,
              verified>>

\* The ids the authority lists (ints), some of two digits, and the
\* installation_id values asked about (strings): the decimal forms of
\* those ids, of an id that is never listed, and "01".
ListedIds == InstIds \cup {10, 10 + NumInst}
ClaimedIds == {Str(i) : i \in ListedIds \cup {NumInst + 1}} \cup {<<0, 1>>}

\* How a GET can end: an exception, or a status and a body.
AnswerKinds ==
    {<<"TimeoutException", 0, FALSE>>, <<"", 500, TRUE>>, <<"", 404, TRUE>>,
     <<"", 200, FALSE>>, <<"", 200, TRUE>>}

\* One more installation in the body's "installations".
VerifierList(i) ==
    /\ Len(answer.installations) <= MaxListing
    /\ answer' = [answer EXCEPT !.installations = Append(@, i)]
    /\ owned' = NoOwn
    /\ UNCHANGED <<flowVars, codecVars, claimed>>

VerifierAnswer(k) ==
    /\ <<answer.exc, answer.status, answer.json>> # k
    /\ answer' = [answer EXCEPT !.exc = k[1], !.status = k[2], !.json = k[3]]
    /\ owned' = NoOwn
    /\ UNCHANGED <<flowVars, codecVars, claimed>>

VerifierClaim(id) ==
    /\ claimed # id
    /\ claimed' = id
    /\ owned' = NoOwn
    /\ UNCHANGED <<flowVars, codecVars, answer>>

VerifierCheck ==
    /\ claimed # <<>> /\ owned = NoOwn
    /\ owned' = user_owns_installation(answer, claimed)
    /\ UNCHANGED <<flowVars, codecVars, answer, claimed>>

VerifierNext ==
    \/ \E i \in ListedIds : VerifierList(i)
    \/ \E k \in AnswerKinds : VerifierAnswer(k)
    \/ \E id \in ClaimedIds : VerifierClaim(id)
    \/ VerifierCheck

VerifierSpec == Init /\ [][VerifierNext]_vars

----------------------------------------------------------------------------
(* Properties of the linking flow (Spec).                                  *)

Finished(p) == call[p].pc = "done"
Linked(p) == Finished(p) /\ call[p].response.kind = "RedirectResponse"

\* C1: every entry account_id -> installation_id of the directory was
\* stored by a run for which the authority's listing (status 200) held that
\* installation id: no id is recorded for an account without the ownership
\* check having passed for that account and that id.
C1_RecordedOnlyAfterOwnershipVerified == INSTALLATIONS_DB \subseteq verified

\* C1 witness: the directory holds an entry while another run, whose
\* listing lacked the id it claimed, was turned away.
C1_Witness ==
    /\ INSTALLATIONS_DB # {}
    /\ \E p \in Procs : Finished(p) /\ call[p].cause = "not_owned"

\* C2: a step in which a run ends in anything but the redirect leaves the
\* directory as it was, and a run whose listing lacked the id ends with 403.
C2_FailedAttemptLeavesDirectory ==
    [][\A p \in Procs :
          (call[p].pc # "done" /\ call'[p].pc = "done"
           /\ call'[p].response.kind # "RedirectResponse")
          => /\ INSTALLATIONS_DB' = INSTALLATIONS_DB
             /\ (call'[p].cause = "not_owned" => call'[p].response.status = 403)]_vars

\* C2 witness: ownership was denied to a run while the directory held an
\* entry (which the denial left in place).
C2_Witness ==
    \E p \in Procs :
        /\ Finished(p) /\ call[p].cause = "not_owned"
        /\ call[p].response.status = 403
        /\ INSTALLATIONS_DB # {}
        /\ lastStore # None /\ lastStore[1] \in INSTALLATIONS_DB

\* C3 (as claimed): a state token leads to at most one store.
C3_TokenStoresAtMostOnce == \A t \in DOMAIN commits : commits[t] <= 1

\* C4: the directory never holds two installation ids for one account,
\* and once every run has finished it maps the account of the store
\* executed last to the installation id of that store.
C4_LastWriteWins ==
    /\ \A e1, e2 \in INSTALLATIONS_DB : e1[1] = e2[1] => e1 = e2
    /\ ((\A p \in Procs : Finished(p)) /\ lastStore # None
        => DictGet(INSTALLATIONS_DB, lastStore[1][1]) = Some(lastStore[1][2]))

\* C4 witness: two runs for ACCOUNT_ID overlapped, both were vouched for
\* with different installation ids, both stored, and the directory holds
\* the id stored last.
C4_Witness ==
    /\ \A p \in Procs : Linked(p)
    /\ \E p \in Procs : call[p].raced
    /\ Cardinality({e \in verified : e[1] = ACCOUNT_ID}) >= 2
    /\ lastStore # None /\ INSTALLATIONS_DB = {lastStore[1]}

\* C5: a request with code, installation_id or state absent or empty ends
\* at once with a 400 naming the missing parameter, having sent no POST
\* and no GET.
C5_MissingParameterBeforeAnyCall ==
    \A p \in Procs :
        call[p].missing
        => /\ Finished(p)
           /\ call[p].response.kind = "HTTPException"
           /\ call[p].response.status = 400
           /\ call[p].response.detail \in
                 {"Missing OAuth code.", "Missing installation_id.",
                  "Missing state token."}
           /\ call[p].posts = 0 /\ call[p].gets = 0

\* C5 witness: a request without a code was answered.
C5_Witness ==
    \E p \in Procs :
        call[p].missing /\ call[p].response.detail = "Missing OAuth code."

\* The three outcomes C6 tells apart.
Outcome(p) ==
    IF call[p].cause = "expired" THEN "expired"
    ELSE IF call[p].cause = "not_owned" THEN "not_owned"
    ELSE IF call[p].cause = "transport"
            \/ (call[p].upstatus # 0 /\ call[p].upstatus \notin 200..299)
         THEN "upstream"
    ELSE "other"

\* C6 (as claimed): an expired state token, an installation the user does
\* not own and an upstream failure never end with the same status.
C6_DistinctStatuses ==
    \A p, q \in Procs :
        (Finished(p) /\ Finished(q)
         /\ Outcome(p) # "other" /\ Outcome(q) # "other" /\ Outcome(p) # Outcome(q))
        => call[p].response.status # call[q].response.status

\* C7 (as claimed): a run whose outbound call timed out or failed in
\* transport ends in a failure the handler raised, not in an uncaught
\* exception and not in the redirect.
C7_TransportFailureIsNamedFailure ==
    \A p \in Procs :
        (Finished(p) /\ call[p].cause = "transport")
        => call[p].response.kind = "HTTPException"

C14_SuccessLinks ==
    /\ [](\A T \in MainTimes :
            (generate_state_token(ACCOUNT_ID, T) \in issued /\ now < T + TTL)
            => decode_state_token(generate_state_token(ACCOUNT_ID, T), now, strictExp)
                  = Return(ACCOUNT_ID))
    /\ [][\A p \in Procs :
            /\ (call[p].pc = "idle" /\ call'[p].pc = "done" /\ ~call'[p].missing)
               => call'[p].cause \in {"expired", "invalid"}
            /\ (call[p].pc = "ownership" /\ call'[p].pc = "done"
                /\ call'[p].cause = "none")
               => /\ call'[p].response = RedirectResponse("/setup")
                  /\ DictGet(INSTALLATIONS_DB', call[p].account_id)
                        = call[p].installation_id
                  /\ call[p].account_id = ACCOUNT_ID]_vars

\* C14 witness: one run, alone, went through with the highest installation
\* id and the directory maps ACCOUNT_ID to it.
C14_Witness ==
    /\ Linked(1) /\ call[1].cause = "none" /\ ~call[1].raced
    /\ call[2].pc = "idle"
    /\ INSTALLATIONS_DB = {<<ACCOUNT_ID, Str(NumInst)>>}

\* The steps of run p in their order: no POST before the validation and
\* the decode passed, no GET before a POST was answered with a token, at
\* most one of each, and the redirect only after both.
Linear(p) ==
    /\ call[p].posts <= 1 /\ call[p].gets <= call[p].posts
    /\ (call[p].missing \/ call[p].cause \in {"expired", "invalid"}
        => call[p].posts = 0)
    /\ (call[p].pc = "exchange" => call[p].posts = 1 /\ call[p].gets = 0)
    /\ (call[p].pc = "ownership"
        => call[p].gets = 1 /\ ~Falsy(call[p].user_token))
    /\ (call[p].cause \in {"refused"} => call[p].gets = 0)
    /\ (Linked(p) => call[p].gets = 1 /\ call[p].cause = "none")

\* C15 (as claimed): a run goes through its steps in order, each at most
\* once and only after the earlier ones succeeded, and ends either with
\* the redirect or with one of the failures the handler raises.
C15_LinearToNamedEnd ==
    \A p \in Procs :
        /\ Linear(p)
        /\ (Finished(p)
            => call[p].response.kind \in {"RedirectResponse", "HTTPException"})

\* C16: the directory changes only in the step in which a run leaves its
\* ownership check with the redirect, and then only at that run's account;
\* no step removes a key; index_page, setup_page, list_installations and
\* list_files_in_repo leave it as it is; and the assignment of one key
\* leaves the entry of any other key, were there one, as it was.
C16_OnlyCommitWritesOneKey ==
    /\ [](\A j \in Accounts, w \in InstIds, v \in InstIds : \A k \in Accounts \ {j} :
            LET d == {e \in INSTALLATIONS_DB : e[1] # j} \cup {<<j, Str(w)>>}
            IN  /\ DictGet(DictSet(d, k, Str(v)), j) = Some(Str(w))
                /\ DictGet(DictSet(d, k, Str(v)), k) = Some(Str(v)))
    /\ [][/\ (INSTALLATIONS_DB' # INSTALLATIONS_DB
              => \E p \in Procs :
                    /\ call[p].pc = "ownership" /\ call'[p].pc = "done"
                    /\ call'[p].response = RedirectResponse("/setup")
                    /\ \A e \in INSTALLATIONS_DB :
                          e[1] # call[p].account_id => e \in INSTALLATIONS_DB'
                    /\ \A e \in INSTALLATIONS_DB' :
                          e[1] # call[p].account_id => e \in INSTALLATIONS_DB
                    /\ DictGet(INSTALLATIONS_DB', call[p].account_id)
                          = call[p].installation_id)
          /\ \A e \in INSTALLATIONS_DB : DictGet(INSTALLATIONS_DB', e[1]) # None
          /\ (index_page \/ setup_page \/ list_installations \/ list_files_in_repo
              => INSTALLATIONS_DB' = INSTALLATIONS_DB)]_vars

\* C16 witness: the directory holds an entry that a later commit replaced,
\* index_page having issued tokens at both times.
C16_Witness ==
    /\ Cardinality(issued) >= 2
    /\ \E t \in DOMAIN commits : commits[t] >= 1
    /\ Cardinality(verified) >= 2
    /\ lastStore # None /\ INSTALLATIONS_DB = {lastStore[1]}
    /\ \A p \in Procs : Linked(p) /\ ~call[p].raced

\* C17: with state values made without JWT_SECRET, every key of the
\* directory, and the account of every run past its decode, is ACCOUNT_ID,
\* for which index_page has issued a token; and index_page issues a token
\* only for ACCOUNT_ID and only while the directory has no entry for it.
C17_OnlyIssuedAccountIsKey ==
    /\ [](/\ \A e \in INSTALLATIONS_DB :
                /\ e[1] = ACCOUNT_ID
                /\ \E T \in MainTimes : generate_state_token(e[1], T) \in issued
          /\ \A p \in Procs :
                call[p].pc \in {"exchange", "ownership"}
                => call[p].account_id = ACCOUNT_ID)
    /\ [][issued' # issued
          => /\ DictGet(INSTALLATIONS_DB, ACCOUNT_ID) = None
             /\ issued' \ issued = {generate_state_token(ACCOUNT_ID, now)}]_vars

\* C17 witness: a run that presented a state value index_page had not
\* issued was turned away, and the directory holds an entry for ACCOUNT_ID.
C17_Witness ==
    /\ \E p \in Procs : Finished(p) /\ call[p].cause = "invalid"
    /\ \E e \in INSTALLATIONS_DB : e[1] = ACCOUNT_ID

----------------------------------------------------------------------------
(* Properties of the codec (CodecSpec).                                    *)

InvalidToken == HTTPException(400, "Invalid state token.")

\* C9 (as claimed): a token that decodes, with one character replaced,
\* fails with "Invalid state token.".
C9_AlteredTokenRejected ==
    (/\ orig # <<>> /\ tok # orig /\ Len(tok) = Len(orig)
     /\ res # NoRes
     /\ decode_state_token(orig, now, strictExp).kind = "return")
    => res = InvalidToken

\* A token jwt.decode accepts although a required claim is absent, or one
\* it rejects for anything but its expiry.
Defective(token) ==
    LET d == jwt_decode(token, JWT_SECRET, JWT_ALGORITHM, now, strictExp) IN
    IF d.ok THEN d.payload.account_id = None \/ d.payload.exp = None
    ELSE d.exc # "ExpiredSignatureError"

\* C10 (as claimed): a token with a bad signature, a malformed structure
\* or a missing claim fails with HTTP 400 "Invalid state token.".
C10_DefectiveTokenIsInvalidToken ==
    (res # NoRes /\ Defective(tok)) => res = InvalidToken

ExpiredToken == HTTPException(400, "State token has expired.")

\* C11: a token generate_state_token made at time T, presented unaltered,
\* fails with "State token has expired." from T + TTL + 1 on and decodes
\* to its account up to T + TTL - 1; the expired answer is given to a
\* token whose signature verifies, and it is not the invalid-token answer.
C11_ExpiryWindow ==
    \A a \in Accounts, T \in Times :
        (tok = generate_state_token(a, T) /\ tok = orig /\ res # NoRes)
        => /\ (now >= T + TTL + 1
               => /\ res = ExpiredToken
                  /\ res # InvalidToken
                  /\ jwt_decode(tok, JWT_SECRET, JWT_ALGORITHM, T, strictExp).ok)
           /\ (now <= T + TTL - 1 => res = Return(a))

\* C11 witness: a token issued at time 1 was refused as expired at
\* 1 + TTL + 1.
C11_Witness ==
    /\ tok = orig /\ tok = generate_state_token(ACCOUNT_ID, 1)
    /\ now = 1 + TTL + 1
    /\ res = ExpiredToken

\* C12: decode_state_token of the token generate_state_token made for
\* account a, applied before the token's expiry, returns a.
C12_RoundTrip ==
    /\ \A a \in Accounts :
          decode_state_token(generate_state_token(a, now), now, strictExp) = Return(a)
    /\ \A a \in Accounts, T \in Times :
          (tok = generate_state_token(a, T) /\ res # NoRes /\ now < T + TTL)
          => res = Return(a)

\* C12 witness: the token of an account other than ACCOUNT_ID was decoded
\* one second before its expiry, and gave that account.
C12_Witness ==
    /\ tok = orig /\ tok = generate_state_token(NumAccounts, 1)
    /\ now = TTL
    /\ res = Return(NumAccounts)

----------------------------------------------------------------------------
(* Properties of the ownership verifier (VerifierSpec).                    *)

\* The authority answered with success and a listing that holds, as the
\* decimal form of one of its ids, exactly the string claimed.
InListing ==
    /\ answer.exc = "" /\ answer.status = 200 /\ answer.json
    /\ claimed \in {Str(answer.installations[i]) : i \in 1..Len(answer.installations)}

\* C13: user_owns_installation returns True exactly when the authority
\* answered 200 with a listing that holds the claimed id (compared as
\* whole strings), and returns False, raising nothing, on a status other
\* than 200, on an empty listing and on a listing without the id.
C13_OwnershipVerdict ==
    owned # NoOwn
    => /\ (owned = [exc |-> "", value |-> TRUE]) <=> InListing
       /\ (answer.exc = "" /\ answer.status # 200
           => owned = [exc |-> "", value |-> FALSE])
       /\ (answer.exc = "" /\ answer.status = 200 /\ answer.json /\ ~InListing
           => owned = [exc |-> "", value |-> FALSE])

\* C13 witness: of a listing of three different ids the second was
\* claimed, and the answer was True.
C13_Witness ==
    /\ Len(answer.installations) = 3
    /\ Cardinality({answer.installations[i] : i \in 1..3}) = 3
    /\ claimed = Str(answer.installations[2])
    /\ owned = [exc |-> "", value |-> TRUE]

=============================================================================
